---- MODULE Spec2Model ----
(***************************************************************************)
(* Model of backend/main.py: the furniture recommendation API.             *)
(*                                                                         *)
(* State: the four module globals written by startup_event, the process    *)
(* environment and the dataset file startup_event reads, the position of   *)
(* startup_event, and the last request handled with its response.          *)
(*                                                                         *)
(* Lines 142-156 of main.py (step 4 of startup_event and the "ready"       *)
(* banner) are mis-indented in the source.  They are modelled as what      *)
(* their statements say: the fourth try/except of startup_event, which     *)
(* assigns the global `dataset` declared at line 91.                       *)
(*                                                                         *)
(* Every handler is an `async def` with no suspension point of its own     *)
(* (the only await is of generate_creative_description, which never        *)
(* yields), so on the event loop a handler runs from its first line to     *)
(* its return without another handler in between: one action per handler.  *)
(***************************************************************************)
EXTENDS Integers, Sequences, FiniteSets, TLC

VARIABLES
    lifecycle,        \* position of startup_event: "step1".."step4", "ready"
    environ,          \* os.environ: PINECONE_API_KEY, GOOGLE_API_KEY
    disk,             \* furniture_dataset.csv beside the program, or NoFile
    embedding_model,  \* global, line 54
    pinecone_index,   \* global, line 55
    gemini_model,     \* global, line 56
    dataset,          \* global, line 57
    outcome,          \* ghost: what happened in each startup step
    attempts,         \* ghost: the startup steps entered, in order
    req,              \* the last request handled, with what the external services did
    resp,             \* the response to it
    calls             \* ghost: external calls made while handling it

vars == <<lifecycle, environ, disk, embedding_model, pinecone_index,
          gemini_model, dataset, outcome, attempts, req, resp, calls>>

globals == <<embedding_model, pinecone_index, gemini_model, dataset>>

(***************************************************************************)
(* Python values.                                                          *)
(***************************************************************************)
PyNone == [t |-> "None"]
Str(s) == [t |-> "str", s |-> s]
\* a float with two decimals, held in hundredths: Num(2499) is 24.99
Num(c) == [t |-> "num", n |-> c]
PyInt(k) == [t |-> "int", i |-> k]
Obj(name) == [t |-> "obj", o |-> name]

\* Python truthiness of an environment value (`if not PINECONE_API_KEY`)
Truthy(x) == x # PyNone /\ x # Str("")

\* dict.get(key, default)
Get(d, key, default) == IF key \in DOMAIN d THEN d[key] ELSE default

NoErr == [exc |-> "none"]
Raise(exc, msg) == [exc |-> exc, msg |-> msg]

(***************************************************************************)
(* Bounds of the model.                                                    *)
(***************************************************************************)
\* longest sequence of matches the vector index returns
MaxMatches == 2
\* most leading / trailing blanks around a generated text
MaxPad == 1
\* generated texts of MaxDescLen - Slack .. MaxDescLen + Slack characters
Slack == 2
\* brands of the analytics dataset beyond the ten that TopN keeps
ExtraBrands == 1
\* most extra rows of one brand in the analytics dataset
MaxExtra == 2
\* most rows of the analytics dataset without a brand
MaxMissing == 2
\* length of the long product title
LongTitleLen == 200

(***************************************************************************)
(* Startup: startup_event, lines 85-156.                                   *)
(***************************************************************************)
Steps == <<"embedding_model", "pinecone", "gemini_ai", "dataset">>

EnvValues == {PyNone, Str(""), Str("key")}

NoFile == [t |-> "nofile"]

\* no request is being handled
NoRequest == [endpoint |-> "none"]

\* a CSV file as pandas reads it: its columns, one sequence per column
\* brand: 0 is a missing value (NaN), 1.. are brand names
DataFrame(cols, brand, price, categories) ==
    [t |-> "DataFrame", columns |-> cols, brand |-> brand, price |-> price,
     categories |-> categories]

SmallFiles ==
    { DataFrame({"brand", "price", "categories"}, <<1, 2, 1>>, <<1000, 2500, 400>>, <<1, 1, 2>>),
      DataFrame({"brand", "price"}, <<>>, <<>>, <<>>),
      DataFrame({"price"}, <<>>, <<700>>, <<>>) }

\* the external calls one request makes: encode, query, generate_creative_description, invoke
NoCalls == [embed |-> 0, search |-> 0, describe |-> 0, invoke |-> 0]

Init ==
    /\ lifecycle = "step1"
    /\ environ \in [{"PINECONE_API_KEY", "GOOGLE_API_KEY"} -> EnvValues]
    /\ disk \in {NoFile} \cup SmallFiles
    /\ embedding_model = PyNone
    /\ pinecone_index = PyNone
    /\ gemini_model = PyNone
    /\ dataset = PyNone
    /\ outcome = [s \in {Steps[i] : i \in 1..4} |-> "pending"]
    /\ attempts = <<>>
    /\ req = NoRequest
    /\ resp = PyNone
    /\ calls = NoCalls

\* AfterStep, were a failed step to end startup_event instead of going on
AfterStepAbort(step, result, next) ==
    /\ outcome' = [outcome EXCEPT ![step] = result]
    /\ attempts' = Append(attempts, step)
    /\ lifecycle' = IF result = "failed" THEN "aborted" ELSE next

\* what the except clause of a step does: log and go on (lines 102, 120, 139, 149)
AfterStep(step, result, next) ==
    /\ outcome' = [outcome EXCEPT ![step] = result]
    /\ attempts' = Append(attempts, step)
    /\ lifecycle' = next

\* lines 97-103
load_embedding_model ==
    /\ lifecycle = "step1"
    /\ \E ok \in BOOLEAN :
        /\ embedding_model' = IF ok THEN Obj("SentenceTransformer") ELSE embedding_model
        /\ AfterStep("embedding_model", IF ok THEN "ok" ELSE "failed", "step2")
    /\ UNCHANGED <<environ, disk, pinecone_index, gemini_model, dataset, req, resp, calls>>

\* the statement of lines 114-119 that raises, "none" when none does
PineconeFailures == {"none", "Pinecone", "Index", "describe_index_stats"}

\* lines 105-121: the global is assigned at line 115, before line 118 verifies
connect_pinecone ==
    /\ lifecycle = "step2"
    /\ IF ~Truthy(environ["PINECONE_API_KEY"])
       THEN /\ pinecone_index' = pinecone_index
            /\ AfterStep("pinecone", "absent", "step3")
       ELSE \E failure \in PineconeFailures :
            /\ pinecone_index' = IF failure \in {"none", "describe_index_stats"}
                                 THEN Obj("Index")
                                 ELSE pinecone_index
            /\ AfterStep("pinecone", IF failure = "none" THEN "ok" ELSE "failed", "step3")
    /\ UNCHANGED <<environ, disk, embedding_model, gemini_model, dataset, req, resp, calls>>

\* lines 123-140
init_gemini ==
    /\ lifecycle = "step3"
    /\ IF ~Truthy(environ["GOOGLE_API_KEY"])
       THEN /\ gemini_model' = gemini_model
            /\ AfterStep("gemini_ai", "absent", "step4")
       ELSE \E ok \in BOOLEAN :
            /\ gemini_model' = IF ok THEN Obj("ChatGoogleGenerativeAI") ELSE gemini_model
            /\ AfterStep("gemini_ai", IF ok THEN "ok" ELSE "failed", "step4")
    /\ UNCHANGED <<environ, disk, embedding_model, pinecone_index, dataset, req, resp, calls>>

\* lines 142-156: pd.read_csv raises when the file is not there
load_dataset ==
    /\ lifecycle = "step4"
    /\ dataset' = IF disk = NoFile THEN dataset ELSE disk
    /\ AfterStep("dataset", IF disk = NoFile THEN "failed" ELSE "ok", "ready")
    /\ UNCHANGED <<environ, disk, embedding_model, pinecone_index, gemini_model, req, resp, calls>>

startup_event ==
    \/ load_embedding_model
    \/ connect_pinecone
    \/ init_gemini
    \/ load_dataset

(***************************************************************************)
(* The web transport layer: app = FastAPI(...), lines 38-42.  It calls a   *)
(* handler once startup_event has returned and sends what the handler      *)
(* returns or raises; the request and its response are then gone.          *)
(***************************************************************************)
Idle == lifecycle = "ready" /\ req = NoRequest

send_response ==
    /\ lifecycle = "ready"
    /\ req # NoRequest
    /\ req' = NoRequest
    /\ resp' = PyNone
    /\ calls' = NoCalls
    /\ UNCHANGED <<lifecycle, environ, disk, globals, outcome, attempts>>

(***************************************************************************)
(* GET / and GET /health.                                                  *)
(***************************************************************************)
\* lines 160-171
root ==
    /\ Idle
    /\ req' = [endpoint |-> "/"]
    /\ resp' = [status |-> 200,
                body |-> [message |-> "Furniture Recommendation API is running",
                          version |-> "1.0.0", status |-> "healthy"]]
    /\ calls' = NoCalls
    /\ UNCHANGED <<lifecycle, environ, disk, globals, outcome, attempts>>

\* lines 373-386
health_check ==
    /\ Idle
    /\ req' = [endpoint |-> "/health"]
    /\ resp' = [status |-> 200,
                body |-> [status |-> "healthy",
                          services |-> [embedding_model |-> embedding_model # PyNone,
                                        pinecone |-> pinecone_index # PyNone,
                                        gemini_ai |-> gemini_model # PyNone,
                                        dataset |-> dataset # PyNone]]]
    /\ calls' = NoCalls
    /\ UNCHANGED <<lifecycle, environ, disk, globals, outcome, attempts>>

(***************************************************************************)
(* Strings.                                                                *)
(***************************************************************************)
Whitespace == {" ", "\n", "\t"}

RECURSIVE Rep(_, _)
\* c * n
Rep(c, n) ==
    IF n <= 0 THEN ""
    ELSE IF n % 2 = 1 THEN c \o Rep(c, n - 1)
    ELSE Rep(c \o c, n \div 2)

RECURSIVE LStrip(_)
LStrip(s) ==
    IF Len(s) > 0 /\ SubSeq(s, 1, 1) \in Whitespace
    THEN LStrip(SubSeq(s, 2, Len(s)))
    ELSE s

RECURSIVE RStrip(_)
RStrip(s) ==
    IF Len(s) > 0 /\ SubSeq(s, Len(s), Len(s)) \in Whitespace
    THEN RStrip(SubSeq(s, 1, Len(s) - 1))
    ELSE s

\* str.strip()
Strip(s) == RStrip(LStrip(s))

Digits == "0123456789"
Digit(d) == SubSeq(Digits, d + 1, d + 1)
IsDigit(c) == \E d \in 0..9 : c = Digit(d)
DigitVal(c) == CHOOSE d \in 0..9 : c = Digit(d)

RECURSIVE NatStr(_)
NatStr(n) == IF n < 10 THEN Digit(n) ELSE NatStr(n \div 10) \o Digit(n % 10)

\* f"{price:.2f}" of a non-negative number held in hundredths
Format2f(c) == NatStr(c \div 100) \o "." \o Digit((c % 100) \div 10) \o Digit(c % 10)

AllDigits(s) == \A i \in 1..Len(s) : IsDigit(SubSeq(s, i, i))

RECURSIVE NatVal(_)
NatVal(s) == IF Len(s) = 0 THEN 0
             ELSE 10 * NatVal(SubSeq(s, 1, Len(s) - 1)) + DigitVal(SubSeq(s, Len(s), Len(s)))

\* the first "." of u, Len(u) + 1 when it has none
DotPos(u) ==
    IF \E i \in 1..Len(u) : SubSeq(u, i, i) = "."
    THEN CHOOSE i \in 1..Len(u) :
            /\ SubSeq(u, i, i) = "."
            /\ \A j \in 1..(i - 1) : SubSeq(u, j, j) # "."
    ELSE Len(u) + 1

ParseParts(whole, frac, point) ==
    IF /\ Len(whole) > 0 /\ AllDigits(whole)
       /\ AllDigits(frac) /\ Len(frac) <= 2
       /\ (point => Len(frac) > 0)
    THEN [err |-> NoErr,
          value |-> Num(100 * NatVal(whole)
                        + (IF Len(frac) = 1 THEN 10 ELSE 1) * NatVal(frac))]
    ELSE [err |-> Raise("ValueError", "could not convert string to float")]

ParseAt(u, p) == ParseParts(SubSeq(u, 1, p - 1), SubSeq(u, p + 1, Len(u)), p <= Len(u))

\* float(s) of a string: digits, then optionally a point and one or two
\* digits; anything else of the model's strings is a ValueError
ParseFloat(s) == ParseAt(Strip(s), DotPos(Strip(s)))

\* float(x), lines 243 and 247
Float(x) ==
    CASE x.t = "num" -> [err |-> NoErr, value |-> x]
      [] x.t = "str" -> ParseFloat(x.s)
      [] OTHER -> [err |-> Raise("TypeError", "float() argument must be a string or a real number")]

\* str(x) as an f-string field formats it
Format(x) ==
    CASE x.t = "str" -> x.s
      [] x.t = "None" -> "None"

(***************************************************************************)
(* Descriptor generator: generate_creative_description, lines 265-316.     *)
(***************************************************************************)
\* line 308
MaxDescLen == 300
\* line 309
TruncLen == 297

\* line 282
NotConfiguredFallback(title, brand) ==
    "Discover the " \o Format(title) \o " by " \o Format(brand)
    \o ", expertly crafted to enhance your living space with style and functionality."

\* line 316
CallFailedFallback(title, brand) ==
    "Elevate your space with the " \o Format(title) \o " from " \o Format(brand)
    \o ". Quality craftsmanship meets modern design at an exceptional value."

\* lines 286-301; f"{price:.2f}" raises for a price that is no number
Prompt(title, brand, price) ==
    IF price.t # "num"
    THEN [err |-> Raise(IF price.t = "str" THEN "ValueError" ELSE "TypeError",
                        "bad format code for price")]
    ELSE [err |-> NoErr,
          value |-> "You are a creative furniture marketing expert. Write a compelling, concise product description (2-3 sentences max) for this furniture item. Focus on benefits, style, and emotional appeal. Be enthusiastic but professional.\n\nProduct: "
                    \o Format(title) \o "\nBrand: " \o Format(brand)
                    \o "\nPrice: $" \o Format2f(price.n) \o "\n\nCreative Description:"]

\* the text-generation service's answer to one invoke: it raises, or returns
\* a response whose content is a string (or, not a string: PyNone)
LLMRaises == [raises |-> TRUE]
LLMReturns(content) == [raises |-> FALSE, content |-> content]

\* lines 307-311
Limit(description) ==
    IF Len(description) > MaxDescLen
    THEN SubSeq(description, 1, TruncLen) \o "..."
    ELSE description

\* generate_creative_description, were the except clause of lines 313-316
\* to re-raise instead of returning the fallback
generate_creative_description_raises(title, brand, price, llm) ==
    IF gemini_model = PyNone
    THEN [raised |-> NoErr, path |-> "not_configured", invoked |-> FALSE,
          text |-> NotConfiguredFallback(title, brand)]
    ELSE IF Prompt(title, brand, price).err # NoErr
    THEN [raised |-> Prompt(title, brand, price).err, path |-> "raise", invoked |-> FALSE,
          text |-> ""]
    ELSE IF llm.raises \/ llm.content.t # "str"
    THEN [raised |-> Raise("Exception", "generation failed"), path |-> "raise",
          invoked |-> TRUE, text |-> ""]
    ELSE [raised |-> NoErr, path |-> "generated", invoked |-> TRUE,
          text |-> Limit(Strip(llm.content.s))]

\* lines 280-316.  llm is what gemini_model.invoke does if it is called.
\* Returns the description; `raised` is the exception that leaves the
\* function (none does), `path` the return statement taken and `invoked`
\* whether gemini_model.invoke was called.
generate_creative_description(title, brand, price, llm) ==
    IF gemini_model = PyNone
    THEN [raised |-> NoErr, path |-> "not_configured", invoked |-> FALSE,
          text |-> NotConfiguredFallback(title, brand)]
    ELSE LET prompt == Prompt(title, brand, price)
             failed(inv) == [raised |-> NoErr, path |-> "call_failed", invoked |-> inv,
                             text |-> CallFailedFallback(title, brand)]
         IN  IF prompt.err # NoErr THEN failed(FALSE)
             ELSE IF llm.raises THEN failed(TRUE)
             ELSE IF llm.content.t # "str" THEN failed(TRUE)
             ELSE [raised |-> NoErr, path |-> "generated", invoked |-> TRUE,
                   text |-> Limit(Strip(llm.content.s))]

(***************************************************************************)
(* POST /recommend/: recommend_products, lines 174-262.                    *)
(***************************************************************************)
\* line 62
DefaultTopK == 8

HTTPException(status_code, detail) == [status |-> status_code, detail |-> detail]

Min2(a, b) == IF a < b THEN a ELSE b

\* one entry of search_results.matches
Match(metadata, score) == [metadata |-> metadata, score |-> score]

\* the matches the vector index is taken to hold: complete metadata, a
\* numeric string as price, missing keys, a price that is no number, a null
\* title, no metadata at all
SampleMatches ==
    { Match([uniq_id |-> Str("p1"), title |-> Str("Oak Chair"), brand |-> Str("Acme"),
             price |-> Num(2499), images |-> Str("oak.jpg")], Num(91)),
      Match([uniq_id |-> Str("p2"), title |-> Str("Pine Desk"), brand |-> Str("Birch Co"),
             price |-> Str("12.50")], Num(80)),
      Match([uniq_id |-> Str("p3"), brand |-> Str("Acme"), price |-> Num(500)], Num(75)),
      Match([uniq_id |-> Str("p4"), title |-> Str("Lamp")], Num(60)),
      Match([uniq_id |-> Str("p5"), title |-> Str("Rug"), brand |-> Str("Acme"),
             price |-> Str("$24.99")], Num(55)),
      Match([uniq_id |-> Str("p6"), title |-> PyNone, brand |-> Str("Acme"),
             price |-> Num(100)], Num(50)),
      Match(PyNone, Num(40)) }

\* lines 240-248: the arguments are evaluated in order, then pydantic
\* validates the str fields
Product(metadata, creative_desc, score) ==
    LET uniq_id == Get(metadata, "uniq_id", Str(""))
        title == Get(metadata, "title", Str("Untitled Product"))
        price == Float(Get(metadata, "price", Num(0)))
        brand == Get(metadata, "brand", Str("Unknown"))
        images == Get(metadata, "images", PyNone)
        similarity_score == Float(score)
    IN  IF price.err # NoErr THEN [err |-> price.err]
        ELSE IF similarity_score.err # NoErr THEN [err |-> similarity_score.err]
        ELSE IF uniq_id.t # "str" \/ title.t # "str" \/ brand.t # "str"
                \/ images.t \notin {"str", "None"}
        THEN [err |-> Raise("ValidationError", "validation error for Product")]
        ELSE [err |-> NoErr,
              value |-> [uniq_id |-> uniq_id.s, title |-> title.s, price |-> price.value.n,
                         brand |-> brand.s, images |-> images,
                         creative_description |-> creative_desc,
                         similarity_score |-> similarity_score.value.n]]

\* AddProduct, were line 250 to put the product first
AddProductFront(products, product) == <<product>> \o products

\* line 250
AddProduct(products, product) == Append(products, product)

RECURSIVE BuildProducts(_, _, _, _, _)
\* lines 227-250: the loop over search_results.matches from match i on;
\* inv counts the gemini_model.invoke calls made so far
BuildProducts(matches, llm, i, products, inv) ==
    IF i > Len(matches)
    THEN [err |-> NoErr, products |-> products, describe |-> i - 1, invoke |-> inv]
    ELSE LET metadata == matches[i].metadata
         IN  IF metadata = PyNone
             THEN [err |-> Raise("AttributeError", "'NoneType' object has no attribute 'get'"),
                   describe |-> i - 1, invoke |-> inv]
             ELSE LET creative_desc ==
                          generate_creative_description(Get(metadata, "title", Str("")),
                                                        Get(metadata, "brand", Str("")),
                                                        Get(metadata, "price", Num(0)),
                                                        llm[i])
                      inv2 == inv + (IF creative_desc.invoked THEN 1 ELSE 0)
                      product == Product(metadata, creative_desc.text, matches[i].score)
                  IN  IF creative_desc.raised # NoErr
                      THEN [err |-> creative_desc.raised, describe |-> i, invoke |-> inv2]
                      ELSE IF product.err # NoErr
                      THEN [err |-> product.err, describe |-> i, invoke |-> inv2]
                      ELSE BuildProducts(matches, llm, i + 1,
                                         AddProduct(products, product.value), inv2)

\* InternalError, were line 261 to leave out str(e)
InternalErrorNoMessage(e) == HTTPException(500, "Error generating recommendations")

\* lines 258-262
InternalError(e) == HTTPException(500, "Error generating recommendations: " \o e.msg)

\* lines 220-224 and 252-256
RecommendationResponse(query, products) ==
    [status |-> 200,
     body |-> [query |-> query, products |-> products, count |-> Len(products)]]

\* ReadinessError, were the check of lines 199-203 missing
ReadinessErrorEmbedderOnly ==
    IF embedding_model = PyNone
    THEN HTTPException(503, "Embedding model not initialized. Check server logs.")
    ELSE NoErr

\* lines 192-203: the HTTPException raised before the try, NoErr when none is
ReadinessError ==
    IF embedding_model = PyNone
    THEN HTTPException(503, "Embedding model not initialized. Check server logs.")
    ELSE IF pinecone_index = PyNone
    THEN HTTPException(503, "Pinecone connection not established. Check PINECONE_API_KEY.")
    ELSE NoErr

\* lines 192-262.  ext is what the embedder, the vector index and the
\* text-generation service do when the handler calls them.
Recommend(request, ext) ==
    IF ReadinessError # NoErr
    THEN [resp |-> ReadinessError, calls |-> NoCalls]
    ELSE IF ext.embed # NoErr
    THEN [resp |-> InternalError(ext.embed),
          calls |-> [NoCalls EXCEPT !.embed = 1]]
    ELSE IF ext.search # NoErr
    THEN [resp |-> InternalError(ext.search),
          calls |-> [NoCalls EXCEPT !.embed = 1, !.search = 1]]
    ELSE IF ext.matches = <<>>
    THEN [resp |-> RecommendationResponse(request.query, <<>>),
          calls |-> [NoCalls EXCEPT !.embed = 1, !.search = 1]]
    ELSE LET built == BuildProducts(ext.matches, ext.llm, 1, <<>>, 0)
         IN  IF built.err # NoErr
             THEN [resp |-> InternalError(built.err),
                   calls |-> [embed |-> 1, search |-> 1, describe |-> built.describe,
                              invoke |-> built.invoke]]
             ELSE [resp |-> RecommendationResponse(request.query, built.products),
                   calls |-> [embed |-> 1, search |-> 1, describe |-> built.describe,
                              invoke |-> built.invoke]]

Queries == {"oak chair", ""}

\* top_k of the request body: fewer than the index can return, or PyNone,
\* a body without top_k
TopKs == {PyInt(k) : k \in 1..(MaxMatches - 1)} \cup {PyNone}

\* RecommendationRequest, lines 60-62
RecommendationRequest(query, top_k) ==
    [query |-> query, top_k |-> IF top_k = PyNone THEN DefaultTopK ELSE top_k.i]

\* what gemini_model.invoke does if it is called: on None it is an
\* AttributeError, on the client any of these
LLMOutcomes ==
    IF gemini_model = PyNone
    THEN {LLMRaises}
    ELSE {LLMRaises, LLMReturns(Str("A cozy chair.")), LLMReturns(Str(" "))}

NoneHasNo(attr) == Raise("AttributeError", "'NoneType' object has no attribute '" \o attr \o "'")

\* what the services do for one request if they are called.  A global that
\* is None has no method to call; the index returns at most top_k matches.
Externals(request) ==
    IF embedding_model = PyNone
    THEN {[embed |-> NoneHasNo("encode")]}
    ELSE IF pinecone_index = PyNone
    THEN {[embed |-> NoErr, search |-> NoneHasNo("query")]}
    ELSE {[embed |-> Raise("RuntimeError", "encode failed")]}
         \cup {[embed |-> NoErr, search |-> Raise("PineconeException", "query failed")]}
         \cup {[embed |-> NoErr, search |-> NoErr, matches |-> m, llm |-> l] :
                 <<m, l>> \in UNION {[1..k -> SampleMatches] \X [1..k -> LLMOutcomes] :
                                       k \in 0..Min2(request.top_k, MaxMatches)}}

\* recommend_products, were it to drop the index after a failed request
recommend_products_reconnects ==
    /\ Idle
    /\ \E query \in Queries, top_k \in TopKs :
        \E ext \in Externals(RecommendationRequest(query, top_k)) :
            /\ req' = [endpoint |-> "/recommend/",
                       request |-> RecommendationRequest(query, top_k), ext |-> ext]
            /\ resp' = Recommend(RecommendationRequest(query, top_k), ext).resp
            /\ calls' = Recommend(RecommendationRequest(query, top_k), ext).calls
            /\ pinecone_index' = IF resp'.status = 500 THEN PyNone ELSE pinecone_index
    /\ UNCHANGED <<lifecycle, environ, disk, embedding_model, gemini_model, dataset,
                   outcome, attempts>>

recommend_products ==
    /\ Idle
    /\ \E query \in Queries, top_k \in TopKs :
        LET request == RecommendationRequest(query, top_k)
        IN  \E ext \in Externals(request) :
              LET r == Recommend(request, ext)
              IN  /\ req' = [endpoint |-> "/recommend/", request |-> request, ext |-> ext]
                  /\ resp' = r.resp
                  /\ calls' = r.calls
    /\ UNCHANGED <<lifecycle, environ, disk, globals, outcome, attempts>>

(***************************************************************************)
(* GET /analytics/: get_analytics, lines 319-368.                          *)
(***************************************************************************)
\* head(10), lines 340 and 344
TopN == 10

\* a missing value of a column (NaN)
NaN == 0

RECURSIVE Uniques(_, _, _)
\* the distinct values of col[i..], NaN dropped, in order of first occurrence
Uniques(col, i, seen) ==
    IF i > Len(col) THEN seen
    ELSE IF col[i] = NaN \/ (\E j \in 1..Len(seen) : seen[j] = col[i])
    THEN Uniques(col, i + 1, seen)
    ELSE Uniques(col, i + 1, Append(seen, col[i]))

Occurrences(col, v) == Cardinality({i \in 1..Len(col) : col[i] = v})

RECURSIVE InsertDesc(_, _)
\* sorted (by count, descending) with pair put after the pairs that count as much
InsertDesc(sorted, pair) ==
    IF Len(sorted) = 0 THEN <<pair>>
    ELSE IF Head(sorted)[2] >= pair[2]
    THEN <<Head(sorted)>> \o InsertDesc(Tail(sorted), pair)
    ELSE <<pair>> \o sorted

RECURSIVE SortDesc(_, _, _)
SortDesc(pairs, i, sorted) ==
    IF i > Len(pairs) THEN sorted
    ELSE SortDesc(pairs, i + 1, InsertDesc(sorted, pairs[i]))

\* ValueCounts, were the counts left in order of first occurrence
ValueCountsUnsorted(col) ==
    [i \in 1..Len(Uniques(col, 1, <<>>)) |->
        <<Uniques(col, 1, <<>>)[i], Occurrences(col, Uniques(col, 1, <<>>)[i])>>]

\* Series.value_counts(): <<value, count>> by falling count, NaN left out
ValueCounts(col) ==
    SortDesc([i \in 1..Len(Uniques(col, 1, <<>>)) |->
                 <<Uniques(col, 1, <<>>)[i], Occurrences(col, Uniques(col, 1, <<>>)[i])>>],
             1, <<>>)

\* Series.head(n)
HeadN(s, n) == SubSeq(s, 1, Min2(n, Len(s)))

\* Series.to_dict()
ToDict(pairs) ==
    [k \in {pairs[i][1] : i \in 1..Len(pairs)} |->
        pairs[CHOOSE i \in 1..Len(pairs) : pairs[i][1] = k][2]]

\* dataset[column].value_counts().head(10).to_dict(), lines 340 and 344
TopCounts(col) == ToDict(HeadN(ValueCounts(col), TopN))

\* float(Series.min()) and float(Series.max()), lines 350-351: nan when empty
SeriesMin(col) ==
    IF Len(col) = 0 THEN [t |-> "nan"]
    ELSE Num(CHOOSE x \in {col[i] : i \in 1..Len(col)} : \A j \in 1..Len(col) : x <= col[j])

SeriesMax(col) ==
    IF Len(col) = 0 THEN [t |-> "nan"]
    ELSE Num(CHOOSE x \in {col[i] : i \in 1..Len(col)} : \A j \in 1..Len(col) : x >= col[j])

\* lines 332-368.  Of price_stats only min and max are modelled: mean,
\* median and std are reals and read nothing else.
Analytics ==
    IF dataset = PyNone
    THEN HTTPException(503, "Dataset not loaded. Check server logs.")
    ELSE IF "brand" \notin dataset.columns
    THEN HTTPException(500, "Error generating analytics: 'brand'")
    ELSE IF "price" \notin dataset.columns
    THEN HTTPException(500, "Error generating analytics: 'price'")
    ELSE [status |-> 200,
          body |-> [total_products |-> Len(dataset.brand),
                    top_brands |-> TopCounts(dataset.brand),
                    top_categories |-> IF "categories" \in dataset.columns
                                       THEN TopCounts(dataset.categories)
                                       ELSE <<>>,
                    price_stats |-> [min |-> SeriesMin(dataset.price),
                                     max |-> SeriesMax(dataset.price)]]]

get_analytics ==
    /\ Idle
    /\ req' = [endpoint |-> "/analytics/"]
    /\ resp' = Analytics
    /\ calls' = NoCalls
    /\ UNCHANGED <<lifecycle, environ, disk, globals, outcome, attempts>>

(***************************************************************************)
(* A direct call of generate_creative_description, over titles, prices and *)
(* generated texts around the length limit.                                *)
(***************************************************************************)
DescTitles == {Str(""), Str("Oak Chair"), Str(Rep("T", LongTitleLen)), PyNone}
DescBrands == {Str("Acme"), Str("")}
DescPrices == {Num(0), Num(2499), Str("12.50"), PyNone}

DescLengths == (0..1) \cup ((MaxDescLen - Slack)..(MaxDescLen + Slack))

DescLLM ==
    IF gemini_model = PyNone
    THEN {LLMRaises}
    ELSE {LLMRaises, LLMReturns(PyNone)}
         \cup {LLMReturns(Str(Rep(" ", l) \o Rep("d", n) \o Rep("\n", r))) :
                 n \in DescLengths, l \in 0..MaxPad, r \in 0..MaxPad}

describe ==
    /\ Idle
    /\ \E title \in DescTitles, brand \in DescBrands, price \in DescPrices, llm \in DescLLM :
        /\ req' = [endpoint |-> "generate_creative_description", title |-> title,
                   brand |-> brand, price |-> price, llm |-> llm]
        /\ resp' = generate_creative_description(title, brand, price, llm)
        /\ calls' = [NoCalls EXCEPT !.describe = 1,
                                    !.invoke = IF resp'.invoked THEN 1 ELSE 0]
    /\ UNCHANGED <<lifecycle, environ, disk, globals, outcome, attempts>>

(***************************************************************************)
(* Datasets for the analytics: up to TopN + ExtraBrands brands of one row  *)
(* each, in rising or falling order, after m rows without a brand and      *)
(* before e more rows of brand h.                                          *)
(***************************************************************************)
AnalyticsBrands(d, h, e, m, rev) ==
    [i \in 1..m |-> NaN] \o [i \in 1..d |-> IF rev THEN d + 1 - i ELSE i] \o [i \in 1..e |-> h]

AnalyticsFile(brand) ==
    DataFrame({"brand", "price", "categories"}, brand,
              [i \in 1..Len(brand) |-> 100 * i], [i \in 1..Len(brand) |-> 1 + (i % 2)])

AnalyticsFiles ==
    { AnalyticsFile(AnalyticsBrands(d, h, e, m, rev)) :
        d \in 0..(TopN + ExtraBrands), h \in 1..(TopN + ExtraBrands),
        e \in 0..MaxExtra, m \in 0..MaxMissing, rev \in BOOLEAN }

(***************************************************************************)
(* Specifications.                                                         *)
(***************************************************************************)
Next ==
    \/ startup_event
    \/ root
    \/ health_check
    \/ recommend_products
    \/ get_analytics
    \/ send_response

Spec == Init /\ [][Next]_vars
\* startup_event alone; the event loop runs it to its end before it serves
SpecStartup == Init /\ [][startup_event]_vars /\ WF_vars(startup_event)

InitDescriptor ==
    /\ lifecycle = "step3"
    /\ environ \in [{"PINECONE_API_KEY", "GOOGLE_API_KEY"} -> EnvValues]
    /\ environ["PINECONE_API_KEY"] = PyNone
    /\ disk = NoFile
    /\ embedding_model = PyNone
    /\ pinecone_index = PyNone
    /\ gemini_model = PyNone
    /\ dataset = PyNone
    /\ outcome = [embedding_model |-> "failed", pinecone |-> "absent",
                  gemini_ai |-> "pending", dataset |-> "pending"]
    /\ attempts = SubSeq(Steps, 1, 2)
    /\ req = NoRequest
    /\ resp = PyNone
    /\ calls = NoCalls

NextDescriptor ==
    \/ init_gemini
    \/ load_dataset
    \/ describe
    \/ send_response

\* generate_creative_description called on its own, after startup
SpecDescriptor == InitDescriptor /\ [][NextDescriptor]_vars

InitAnalytics ==
    /\ lifecycle = "step4"
    /\ environ = [k \in {"PINECONE_API_KEY", "GOOGLE_API_KEY"} |-> PyNone]
    /\ disk \in AnalyticsFiles
    /\ embedding_model = PyNone
    /\ pinecone_index = PyNone
    /\ gemini_model = PyNone
    /\ dataset = PyNone
    /\ outcome = [embedding_model |-> "failed", pinecone |-> "absent",
                  gemini_ai |-> "absent", dataset |-> "pending"]
    /\ attempts = SubSeq(Steps, 1, 3)
    /\ req = NoRequest
    /\ resp = PyNone
    /\ calls = NoCalls

NextAnalytics ==
    \/ load_dataset
    \/ get_analytics
    \/ send_response

\* the analytics over datasets of more than TopN brands
SpecAnalytics == InitAnalytics /\ [][NextAnalytics]_vars
(***************************************************************************)
(* The claims.                                                             *)
(***************************************************************************)
IsRecommend == req.endpoint = "/recommend/"

\* the search of this request returned its matches
Searched == IsRecommend /\ ReadinessError = NoErr /\ req.ext.embed = NoErr
            /\ req.ext.search = NoErr

\* Product Record assembly of match m raises nothing
Assembles(m) == m.metadata # PyNone /\ Product(m.metadata, "", m.score).err = NoErr

\* str(e) of what the assembly of match m raises
AssemblyMessage(m) ==
    IF m.metadata = PyNone THEN "'NoneType' object has no attribute 'get'"
    ELSE Product(m.metadata, "", m.score).err.msg

\* C1: a recommend request handled while the embedder or the search client
\* is not ready ends in 503, and no embedding, search or description call
\* is made for it.
C1_NotReadyIs503 ==
    (IsRecommend /\ (embedding_model = PyNone \/ pinecone_index = PyNone))
        => /\ resp.status = 503
           /\ calls = [embed |-> 0, search |-> 0, describe |-> 0, invoke |-> 0]

C1_Witness ==
    /\ IsRecommend
    /\ embedding_model # PyNone
    /\ pinecone_index = PyNone
    /\ resp.status = 503

\* C2: each flag of GET /health is true exactly when its startup step
\* succeeded, and a recommend request after a failed search-client step is
\* rejected with 503.
C2_HealthMatchesStartup ==
    /\ req.endpoint = "/health"
        => \A s \in DOMAIN outcome : resp.body.services[s] = (outcome[s] = "ok")
    /\ (IsRecommend /\ outcome["pinecone"] # "ok") => resp.status = 503

\* C3: generate_creative_description returns 1 to 300 characters, and the
\* first 297 characters of the trimmed text and "..." when that text is
\* longer than 300.
C3_DescriptionLength ==
    req.endpoint = "generate_creative_description"
        => /\ Len(resp.text) >= 1
           /\ Len(resp.text) <= 300
           /\ (resp.path = "generated" /\ Len(Strip(req.llm.content.s)) > 300)
                => resp.text = SubSeq(Strip(req.llm.content.s), 1, 297) \o "..."

\* C4: when the search returns n matches and the request succeeds, count =
\* len(products) = n and product i is built from match i; with n = 0 the
\* request succeeds with no product, count 0 and no description call.
C4_ProductsFollowMatches ==
    Searched =>
        /\ req.ext.matches = <<>>
            => /\ resp = [status |-> 200,
                          body |-> [query |-> req.request.query, products |-> <<>>,
                                    count |-> 0]]
               /\ calls.describe = 0
               /\ calls.invoke = 0
        /\ resp.status = 200
            => /\ resp.body.count = Len(resp.body.products)
               /\ resp.body.count = Len(req.ext.matches)
               /\ \A i \in 1..Len(req.ext.matches) :
                    /\ resp.body.products[i].uniq_id
                         = Get(req.ext.matches[i].metadata, "uniq_id", Str("")).s
                    /\ resp.body.products[i].similarity_score = req.ext.matches[i].score.n
                    /\ resp.body.products[i].title
                         = Get(req.ext.matches[i].metadata, "title", Str("Untitled Product")).s

C4_Witness ==
    /\ Searched
    /\ resp.status = 200
    /\ resp.body.count = 2
    /\ resp.body.products[1].uniq_id # resp.body.products[2].uniq_id

\* C5: with the text-generation service not configured, the description of
\* every product of a response is the "Discover the ..." sentence with the
\* title and the brand of that Product Record.
C5_FallbackOfRecord ==
    (IsRecommend /\ gemini_model = PyNone /\ resp.status = 200)
        => \A i \in 1..Len(resp.body.products) :
             resp.body.products[i].creative_description
               = "Discover the " \o resp.body.products[i].title \o " by "
                 \o resp.body.products[i].brand
                 \o ", expertly crafted to enhance your living space with style and functionality."

\* the generation step of match i of this request fails: formatting the
\* price raises, the call raises, or what it returns has no text
GenerationFails(i) ==
    \/ Get(req.ext.matches[i].metadata, "price", Num(0)).t # "num"
    \/ req.ext.llm[i].raises
    \/ req.ext.llm[i].content.t # "str"

\* C6: with the generator initialized, a generation step that fails leaves
\* no error behind: the request ends as the assembly of its matches alone
\* decides (200 exactly when every match assembles, never 503), and each
\* failed match carries the "Elevate your space ..." sentence, which is not
\* the never-configured one.
C6_GenerationFailureAbsorbed ==
    (Searched /\ gemini_model # PyNone) =>
        /\ resp.status # 503
        /\ resp.status = 200 <=> \A i \in 1..Len(req.ext.matches) : Assembles(req.ext.matches[i])
        /\ resp.status = 200
            => \A i \in 1..Len(req.ext.matches) :
                 GenerationFails(i)
                   => /\ resp.body.products[i].creative_description
                           = "Elevate your space with the "
                             \o Format(Get(req.ext.matches[i].metadata, "title", Str("")))
                             \o " from "
                             \o Format(Get(req.ext.matches[i].metadata, "brand", Str("")))
                             \o ". Quality craftsmanship meets modern design at an exceptional value."
                      /\ resp.body.products[i].creative_description
                           # NotConfiguredFallback(Get(req.ext.matches[i].metadata, "title", Str("")),
                                                   Get(req.ext.matches[i].metadata, "brand", Str("")))

C6_Witness ==
    /\ Searched
    /\ gemini_model # PyNone
    /\ resp.status = 200
    /\ Len(req.ext.matches) = 2
    /\ req.ext.llm[1].raises
    /\ ~GenerationFails(2)

IsPrefix(a, b) == Len(a) <= Len(b) /\ a = SubSeq(b, 1, Len(a))

DatasetBrands == {dataset.brand[i] : i \in 1..Len(dataset.brand)} \ {NaN}
BrandCount(b) == Cardinality({i \in 1..Len(dataset.brand) : dataset.brand[i] = b})

\* C8: for a dataset of N rows the analytics return total_products = N and
\* a top_brands mapping of at most 10 entries, from brands of the dataset
\* to their exact counts (1 to N each), and no brand left out of it occurs
\* more often than a brand in it.
C8_TopBrands ==
    (req.endpoint = "/analytics/" /\ resp.status = 200) =>
        /\ resp.body.total_products = Len(disk.brand)
        /\ Cardinality(DOMAIN resp.body.top_brands) <= 10
        /\ DOMAIN resp.body.top_brands \subseteq DatasetBrands
        /\ \A b \in DOMAIN resp.body.top_brands :
            /\ resp.body.top_brands[b] = BrandCount(b)
            /\ resp.body.top_brands[b] >= 1
            /\ resp.body.top_brands[b] <= resp.body.total_products
            /\ \A a \in DatasetBrands \ DOMAIN resp.body.top_brands :
                 BrandCount(a) <= resp.body.top_brands[b]

C8_Witness ==
    /\ req.endpoint = "/analytics/"
    /\ resp.status = 200
    /\ Cardinality(DOMAIN resp.body.top_brands) = 10
    /\ DatasetBrands \ DOMAIN resp.body.top_brands # {}
    /\ \E b \in DOMAIN resp.body.top_brands : resp.body.top_brands[b] >= 2
    /\ \E b \in DOMAIN resp.body.top_brands : resp.body.top_brands[b] = 1

\* C9: once both readiness checks passed, an exception of the embedding
\* call, of the search call or of the assembly of a Product Record ends the
\* request in 500 with the message of that exception, never in 503 and
\* never with a product list.
C9_ExceptionIs500 ==
    (IsRecommend /\ ReadinessError = NoErr) =>
        /\ resp.status \in {200, 500}
        /\ req.ext.embed # NoErr
            => resp = [status |-> 500,
                       detail |-> "Error generating recommendations: " \o req.ext.embed.msg]
        /\ (req.ext.embed = NoErr /\ req.ext.search # NoErr)
            => resp = [status |-> 500,
                       detail |-> "Error generating recommendations: " \o req.ext.search.msg]
        /\ Searched
            => \A i \in 1..Len(req.ext.matches) :
                 (/\ ~Assembles(req.ext.matches[i])
                  /\ \A j \in 1..(i - 1) : Assembles(req.ext.matches[j]))
                    => resp = [status |-> 500,
                               detail |-> "Error generating recommendations: "
                                          \o AssemblyMessage(req.ext.matches[i])]

C9_Witness ==
    /\ Searched
    /\ Len(req.ext.matches) = 2
    /\ Assembles(req.ext.matches[1])
    /\ ~Assembles(req.ext.matches[2])
    /\ resp.status = 500

\* C10: once startup has finished no handler changes a readiness value or
\* the dataset, whatever the requests and their outcomes.
C10_GlobalsFrozen ==
    [][lifecycle = "ready" => (globals' = globals /\ lifecycle' = "ready")]_vars

C10_Witness ==
    /\ IsRecommend
    /\ resp.status = 500
    /\ pinecone_index # PyNone
    /\ dataset # PyNone
====
